---- MODULE Spec2Model ----
(***************************************************************************)
(* Model of the module-to-rule expansion of                                *)
(* src/neuralogic/nn/module/general/rnn.py: the RNNCell and RNN modules,   *)
(* their construction (__init__) and their expansion (__call__) into an    *)
(* ordered list of facts, rules and predicate metadata.                    *)
(*                                                                         *)
(* Predicate and variable names are strings, built as the code builds      *)
(* them (f-strings are string concatenation).  A statement list is a       *)
(* sequence of records.                                                    *)
(***************************************************************************)
EXTENDS Integers, Sequences, FiniteSets, TLC

VARIABLES
    modules,    \* the module objects constructed so far, by identity 1..Len
    calls,      \* log of the expansions performed: module, its fields, result
    template,   \* the statements of the template under compilation
    registry,   \* the module configurations the template has accepted
    error       \* "none", or the error that aborted the compile pass

vars == <<modules, calls, template, registry, error>>

----------------------------------------------------------------------------
(* Bounds of the model *)

MaxSize == 2        \* input_size and hidden_size range over 1..MaxSize
MaxLayers == 3      \* num_layers ranges over 0..MaxLayers
MaxArity == 2       \* arity ranges over 0..MaxArity
MaxCalls == 3       \* expansions logged in one behaviour
MaxModules == 2     \* module objects constructed in one behaviour

Sizes == 1..MaxSize
Layers == 0..MaxLayers
Arities == 0..MaxArity

(* Defaults of the constructors' keyword parameters *)
DefaultActivation == "TANH"
DefaultArity == 1
DefaultInputTimeStep == TRUE
DefaultNextName == "_next__positive"

Activations == {"TANH", "SIGMOID"}
OutputNames == {"out", "h"}
InputNames == {"a", "out__rnn_cell"}
HiddenNames == {"h0", "h"}
NextNames == {DefaultNextName}

----------------------------------------------------------------------------
(* Terms, atoms and statements, as the factories R and V build them *)

\* V.Y, V.Z and the capitalised strings "X0", "X1", ...: logic variables
V(name) == [kind |-> "var", name |-> name, val |-> 0]

\* an integer literal used as a term
Const(i) == [kind |-> "const", name |-> "", val |-> i]

\* R.get(name)(terms): an unweighted atom
Atom(name, terms) == [predicate |-> name, terms |-> terms, weight |-> <<>>]

\* atom[rows, cols]: the atom with a weight of that shape
Weighted(atom, rows, cols) == [atom EXCEPT !.weight = <<rows, cols>>]

\* Metadata(activation=a), and the list form [a] that "|" converts to it
Metadata(activation) == [activation |-> activation]

\* (head <= body) | metadata
Rule(head, body, metadata) ==
    [type |-> "rule", head |-> head, body |-> body, metadata |-> metadata]

\* an atom standing alone in the statement list
Fact(atom) == [type |-> "fact", head |-> atom]

\* predicate / arity | metadata
PredicateMetadata(name, arity, metadata) ==
    [type |-> "metadata", predicate |-> name, arity |-> arity,
     metadata |-> metadata]

\* [f"X{i}" for i in range(arity)]
PositionTerms(arity) == [i \in 1..arity |-> V("X" \o ToString(i - 1))]

----------------------------------------------------------------------------
(* RNNCell *)

RNNCellInit(input_size, hidden_size, output_name, input_name, hidden_input_name, activation, arity, input_time_step, next_name) ==
    [cls |-> "RNNCell",
     input_size |-> input_size,
     hidden_size |-> hidden_size,
     output_name |-> output_name,
     input_name |-> input_name,
     hidden_input_name |-> hidden_input_name,
     activation |-> activation,
     arity |-> arity,
     next_name |-> next_name,
     input_time_step |-> input_time_step]

\* input_terms = terms, extended by V.Y when input_time_step is set
CellInputTerms(self) ==
    IF self.input_time_step
    THEN Append(PositionTerms(self.arity), V("Y"))
    ELSE PositionTerms(self.arity)

\* CellBody without the successor atom
CellBody_NoSuccessor(self) ==
    << Weighted(Atom(self.input_name, CellInputTerms(self)),
                self.hidden_size, self.input_size),
       Weighted(Atom(self.hidden_input_name,
                     Append(PositionTerms(self.arity), V("Z"))),
                self.hidden_size, self.hidden_size) >>

\* CellBody with the input weight's dimensions exchanged
CellBody_SwappedShape(self) ==
    << Weighted(Atom(self.input_name, CellInputTerms(self)),
                self.input_size, self.hidden_size),
       Weighted(Atom(self.hidden_input_name,
                     Append(PositionTerms(self.arity), V("Z"))),
                self.hidden_size, self.hidden_size),
       Atom(self.next_name, <<V("Z"), V("Y")>>) >>

\* the three body atoms of rnn_rule, in the order of the tuple
CellBody(self) ==
    << Weighted(Atom(self.input_name, CellInputTerms(self)),
                self.hidden_size, self.input_size),
       Weighted(Atom(self.hidden_input_name,
                     Append(PositionTerms(self.arity), V("Z"))),
                self.hidden_size, self.hidden_size),
       Atom(self.next_name, <<V("Z"), V("Y")>>) >>

\* rnn_rule = output([*terms, V.Y]) <= (...)
CellRule(self) ==
    Rule(Atom(self.output_name, Append(PositionTerms(self.arity), V("Y"))),
         CellBody(self),
         Metadata("IDENTITY"))

\* CellMetadata targeting the arity without the time term
CellMetadata_NoTimeTerm(self) ==
    PredicateMetadata(self.output_name, self.arity, Metadata(self.activation))

\* output / (self.arity + 1) | Metadata(activation=self.activation)
CellMetadata(self) ==
    PredicateMetadata(self.output_name, self.arity + 1,
                      Metadata(self.activation))

\* RNNCell.__call__
RNNCellCall(self) == << CellRule(self), CellMetadata(self) >>

----------------------------------------------------------------------------
(* RNN *)

RNNInit(input_size, hidden_size, num_layers, output_name, input_name, hidden_0_name, activation, arity, input_time_step, next_name) ==
    [cls |-> "RNN",
     input_size |-> input_size,
     hidden_size |-> hidden_size,
     num_layers |-> num_layers,
     output_name |-> output_name,
     input_name |-> input_name,
     hidden_0_name |-> hidden_0_name,
     activation |-> activation,
     arity |-> arity,
     next_name |-> next_name,
     input_time_step |-> input_time_step]

\* TempOutputName numbered by a counter of the expansions performed
TempOutputName_Counted(self) ==
    self.output_name \o "__rnn_cell" \o ToString(Len(calls))

\* TempOutputName derived from the input name
TempOutputName_FromInput(self) == self.input_name \o "__rnn_cell"

\* temp_output_name = f"{self.output_name}__rnn_cell"
TempOutputName(self) == self.output_name \o "__rnn_cell"

\* recursive_cell = RNNCell(...), the intermediate name as output and hidden
RecursiveCell(self) ==
    RNNCellInit(self.input_size, self.hidden_size, TempOutputName(self),
                self.input_name, TempOutputName(self), self.activation,
                self.arity, self.input_time_step, self.next_name)

\* NextFacts over range(1, num_layers + 1)
NextFacts_FromOne(self) ==
    [k \in 1..self.num_layers |->
        Fact(Atom(self.next_name, <<Const(k), Const(k + 1)>>))]

\* [next_relation(i, i + 1) for i in range(0, self.num_layers)]
NextFacts(self) ==
    [k \in 1..self.num_layers |->
        Fact(Atom(self.next_name, <<Const(k - 1), Const(k)>>))]

\* R.get(temp_output_name)([*terms, 0]) <= R.get(self.hidden_0_name)(terms)
InitialRule(self) ==
    Rule(Atom(TempOutputName(self),
              Append(PositionTerms(self.arity), Const(0))),
         << Atom(self.hidden_0_name, PositionTerms(self.arity)) >>,
         Metadata("IDENTITY"))

\* output_relation(terms) <= R.get(temp_output_name)([*terms, num_layers])
OutputRule(self) ==
    Rule(Atom(self.output_name, PositionTerms(self.arity)),
         << Atom(TempOutputName(self),
                 Append(PositionTerms(self.arity), Const(self.num_layers))) >>,
         Metadata("IDENTITY"))

\* output_relation / self.arity | [Activation.IDENTITY]
OutputMetadata(self) ==
    PredicateMetadata(self.output_name, self.arity, Metadata("IDENTITY"))

\* RNNCall without the output relation's metadata
RNNCall_NoOutputMetadata(self) ==
    NextFacts(self)
    \o << InitialRule(self) >>
    \o RNNCellCall(RecursiveCell(self))
    \o << OutputRule(self) >>

\* RNN.__call__
RNNCall(self) ==
    NextFacts(self)
    \o << InitialRule(self) >>
    \o RNNCellCall(RecursiveCell(self))
    \o << OutputRule(self), OutputMetadata(self) >>

\* module(): dispatch on the class of the object
Expand(self) ==
    IF self.cls = "RNN" THEN RNNCall(self) ELSE RNNCellCall(self)

----------------------------------------------------------------------------
(* The configurations a caller may construct *)

AllRNN ==
    { RNNInit(i, h, n, o, a, h0, act, ar, ts, nx) :
        i \in Sizes, h \in Sizes, n \in Layers, o \in OutputNames,
        a \in InputNames, h0 \in HiddenNames, act \in Activations,
        ar \in Arities, ts \in BOOLEAN, nx \in NextNames }

AllRNNCell ==
    { RNNCellInit(i, h, o, a, hi, act, ar, ts, nx) :
        i \in Sizes, h \in Sizes, o \in OutputNames, a \in InputNames,
        hi \in HiddenNames, act \in Activations, ar \in Arities,
        ts \in BOOLEAN, nx \in NextNames }

----------------------------------------------------------------------------
(* One module, expanded repeatedly *)

\* module(): the caller receives the statement list; the log keeps the
\* fields the module had when called and the list returned
Call(m) ==
    /\ m \in DOMAIN modules
    /\ Len(calls) < MaxCalls
    /\ calls' = Append(calls, [module |-> m, self |-> modules[m],
                               result |-> Expand(modules[m]),
                               added |-> FALSE])
    /\ UNCHANGED <<modules, template, registry, error>>

CallRNN(m) == m \in DOMAIN modules /\ modules[m].cls = "RNN" /\ Call(m)

CallRNNCell(m) ==
    m \in DOMAIN modules /\ modules[m].cls = "RNNCell" /\ Call(m)

InitCall ==
    /\ modules \in { <<self>> : self \in AllRNN \cup AllRNNCell }
    /\ calls = <<>>
    /\ template = <<>>
    /\ registry = {}
    /\ error = "none"

NextCall == \E m \in DOMAIN modules : CallRNN(m) \/ CallRNNCell(m)

SpecCall == InitCall /\ [][NextCall]_vars

----------------------------------------------------------------------------
(* Construction of modules by a client, and the template's compile pass *)

\* the configurations the client of the template constructs: hidden sizes
\* and output names vary, the keyword parameters keep their defaults
ClientSizes == {1, 2}

ClientRNN ==
    { RNNInit(1, h, 2, o, "a", "h0", DefaultActivation, DefaultArity,
              DefaultInputTimeStep, DefaultNextName) :
        h \in ClientSizes, o \in OutputNames }

ClientRNNCell ==
    { RNNCellInit(1, 1, o, "a", o, DefaultActivation, DefaultArity,
                  DefaultInputTimeStep, DefaultNextName) :
        o \in {"h"} }

\* RNN(...): a new module object holding its arguments
ConstructRNN(self) ==
    /\ self \in ClientRNN
    /\ Len(modules) < MaxModules
    /\ modules' = Append(modules, self)
    /\ UNCHANGED <<calls, template, registry, error>>

\* RNNCell(...): a new module object holding its arguments
ConstructRNNCell(self) ==
    /\ self \in ClientRNNCell
    /\ Len(modules) < MaxModules
    /\ modules' = Append(modules, self)
    /\ UNCHANGED <<calls, template, registry, error>>

\* the relation names a module defines: its output and, for an RNN, its
\* intermediate relation
ClaimedNames(self) ==
    IF self.cls = "RNN"
    THEN { self.output_name, TempOutputName(self) }
    ELSE { self.output_name }

\* NameConflict that never reports
NameConflict_Never(accepted, self) == FALSE

\* a different configuration already accepted claims one of the names
NameConflict(accepted, self) ==
    \E other \in accepted :
        /\ other # self
        /\ ClaimedNames(other) \cap ClaimedNames(self) # {}

\* the statements appended in order, structurally equal ones kept once
RECURSIVE Merge(_, _)
Merge(statements, new) ==
    IF new = <<>> THEN statements
    ELSE Merge(IF \E k \in DOMAIN statements : statements[k] = Head(new)
               THEN statements
               ELSE Append(statements, Head(new)),
               Tail(new))

\* the resolver takes module m into the template of the current pass: it
\* expands the module, fails the pass with NameConflict when the module's
\* names are claimed by a different configuration, and merges otherwise
AddModule(m) ==
    /\ m \in DOMAIN modules
    /\ error = "none"
    /\ Len(calls) < MaxCalls
    /\ calls' = Append(calls, [module |-> m, self |-> modules[m],
                               result |-> Expand(modules[m]),
                               added |-> TRUE])
    /\ IF NameConflict(registry, modules[m])
       THEN /\ error' = "NameConflict"
            /\ template' = <<>>
            /\ registry' = {}
       ELSE /\ error' = error
            /\ template' = Merge(template, Expand(modules[m]))
            /\ registry' = registry \cup {modules[m]}
    /\ UNCHANGED modules

Init ==
    /\ modules = <<>>
    /\ calls = <<>>
    /\ template = <<>>
    /\ registry = {}
    /\ error = "none"

Next ==
    \/ \E self \in ClientRNN : ConstructRNN(self)
    \/ \E self \in ClientRNNCell : ConstructRNNCell(self)
    \/ \E m \in DOMAIN modules : CallRNN(m)
    \/ \E m \in DOMAIN modules : CallRNNCell(m)
    \/ \E m \in DOMAIN modules : AddModule(m)

Spec == Init /\ [][Next]_vars

----------------------------------------------------------------------------
(* Vocabulary of the properties *)

Range(seq) == { seq[k] : k \in DOMAIN seq }

\* the variables X0 .. X{n-1}, written out
Xs(n) == [k \in 1..n |-> [kind |-> "var", name |-> "X" \o ToString(k - 1),
                          val |-> 0]]
VarY == [kind |-> "var", name |-> "Y", val |-> 0]
VarZ == [kind |-> "var", name |-> "Z", val |-> 0]
IntTerm(i) == [kind |-> "const", name |-> "", val |-> i]

VarsOf(atom) == { t \in Range(atom.terms) : t.kind = "var" }
BodyVars(rule) == UNION { VarsOf(rule.body[k]) : k \in DOMAIN rule.body }

OfType(result, type) == { k \in DOMAIN result : result[k].type = type }

\* rules of a result whose body has n atoms
RulesWithBody(result, n) ==
    { k \in OfType(result, "rule") : Len(result[k].body) = n }

RNNCalls == { k \in DOMAIN calls : calls[k].self.cls = "RNN" }
CellCalls == { k \in DOMAIN calls : calls[k].self.cls = "RNNCell" }

\* the intermediate name an RNN with these fields is documented to use
IntermediateName(self) == self.output_name \o "__rnn_cell"

----------------------------------------------------------------------------
(* C1 *)

\* C1 as stated: an expansion of an RNN with num_layers >= 1 returns
\* num_layers successor facts, 2 boundary rules, and the cell's 1 rule and
\* 1 metadata directive, num_layers + 4 statements in total.
C1_TotalIsLayersPlusFour ==
    \A k \in RNNCalls :
        LET self == calls[k].self
            result == calls[k].result
        IN  self.num_layers >= 1 =>
              /\ Cardinality(OfType(result, "fact")) = self.num_layers
              /\ Cardinality(RulesWithBody(result, 1)) = 2
              /\ Cardinality(RulesWithBody(result, 3)) = 1
              /\ Len(result) = self.num_layers + 4

\* C1 amended: an expansion of an RNN with num_layers >= 1 returns exactly
\* num_layers successor facts, exactly 2 boundary rules (one body atom), the
\* cell's 1 rule (three body atoms) and 1 metadata directive, and 1 further
\* metadata directive for the output relation: num_layers + 5 statements,
\* whatever input_size and hidden_size are.
C1_TotalIsLayersPlusFive ==
    \A k \in RNNCalls :
        LET self == calls[k].self
            result == calls[k].result
        IN  self.num_layers >= 1 =>
              /\ Cardinality(OfType(result, "fact")) = self.num_layers
              /\ Cardinality(RulesWithBody(result, 1)) = 2
              /\ Cardinality(RulesWithBody(result, 3)) = 1
              /\ Cardinality(OfType(result, "rule")) = 3
              /\ Cardinality(OfType(result, "metadata")) = 2
              /\ Len(result) = self.num_layers + 5

C1_Witness ==
    \E k \in RNNCalls :
        /\ calls[k].self.num_layers = MaxLayers
        /\ calls[k].self.input_size # calls[k].self.hidden_size
        /\ Len(calls[k].result) = MaxLayers + 5

----------------------------------------------------------------------------
(* C2 *)

\* C2: an RNN with num_layers < 1 never yields a statement sequence (its
\* construction fails with InvalidConfiguration).
C2_NoExpansionBelowOneLayer ==
    \A k \in RNNCalls : calls[k].self.num_layers >= 1

----------------------------------------------------------------------------
(* C3 *)

\* C3: an expansion of an RNNCell returns exactly one rule followed by
\* exactly one metadata directive, and every variable of the rule's head,
\* X0..X{arity-1} and Y, occurs in some body atom.
C3_CellRuleSafe ==
    \A k \in CellCalls :
        LET self == calls[k].self
            result == calls[k].result
        IN  /\ Len(result) = 2
            /\ result[1].type = "rule"
            /\ result[2].type = "metadata"
            /\ VarsOf(result[1].head) = Range(Xs(self.arity)) \cup {VarY}
            /\ VarsOf(result[1].head) \subseteq BodyVars(result[1])

C3_Witness ==
    \E k \in CellCalls :
        /\ ~calls[k].self.input_time_step
        /\ calls[k].self.arity = MaxArity
        /\ VarY \in BodyVars(calls[k].result[1])

----------------------------------------------------------------------------
(* C9 *)

\* C9: the rule of an RNNCell has head output_name(X0..X{arity-1}, Y) and
\* exactly three body atoms in this order: input_name over the position
\* variables, followed by Y iff input_time_step, weighted (hidden_size,
\* input_size); hidden_input_name(X0..X{arity-1}, Z) weighted (hidden_size,
\* hidden_size); the unweighted next_name(Z, Y).
C9_CellRuleShape ==
    \A k \in CellCalls :
        LET self == calls[k].self
            rule == calls[k].result[1]
            xs == Xs(self.arity)
        IN  /\ rule.head.predicate = self.output_name
            /\ rule.head.terms = xs \o <<VarY>>
            /\ Len(rule.body) = 3
            /\ rule.body[1].predicate = self.input_name
            /\ rule.body[1].terms =
                 (IF self.input_time_step THEN xs \o <<VarY>> ELSE xs)
            /\ rule.body[1].weight = <<self.hidden_size, self.input_size>>
            /\ rule.body[2].predicate = self.hidden_input_name
            /\ rule.body[2].terms = xs \o <<VarZ>>
            /\ rule.body[2].weight = <<self.hidden_size, self.hidden_size>>
            /\ rule.body[3].predicate = self.next_name
            /\ rule.body[3].terms = <<VarZ, VarY>>
            /\ rule.body[3].weight = <<>>

C9_Witness ==
    \E k \in CellCalls :
        /\ calls[k].self.input_size # calls[k].self.hidden_size
        /\ calls[k].self.input_time_step
        /\ calls[k].self.arity = 1
        /\ calls[k].result[1].body[1].terms = <<Xs(1)[1], VarY>>

----------------------------------------------------------------------------
(* C8 *)

\* the time indices next_name(i, j) facts of a result lead to from index i
Successors(result, name, i) ==
    { result[k].head.terms[2].val :
        k \in { f \in OfType(result, "fact") :
                  /\ result[f].head.predicate = name
                  /\ result[f].head.terms[1].val = i } }

\* the indices reached from index i through exactly n successor facts
RECURSIVE ReachedIn(_, _, _, _)
ReachedIn(result, name, i, n) ==
    IF n = 0 THEN {i}
    ELSE UNION { Successors(result, name, j) :
                   j \in ReachedIn(result, name, i, n - 1) }

\* C8: for num_layers >= 1 the successor facts are exactly next(i, i+1),
\* i = 0..num_layers-1, in increasing order; the first boundary rule binds
\* the intermediate relation at time 0 to hidden_0_name; the last binds
\* output_name, without time term, to the intermediate relation at time
\* num_layers; and time num_layers is reached from time 0 through exactly
\* num_layers successor facts.
C8_ChainAndBoundaries ==
    \A k \in RNNCalls :
        LET self == calls[k].self
            result == calls[k].result
            n == self.num_layers
            xs == Xs(self.arity)
            first == result[n + 1]
            last == result[n + 4]
        IN  n >= 1 =>
              /\ OfType(result, "fact") = 1..n
              /\ \A i \in 0..(n - 1) :
                    /\ result[i + 1].head.predicate = self.next_name
                    /\ result[i + 1].head.terms = <<IntTerm(i), IntTerm(i + 1)>>
              /\ first.type = "rule"
              /\ first.head.predicate = IntermediateName(self)
              /\ first.head.terms = xs \o <<IntTerm(0)>>
              /\ Len(first.body) = 1
              /\ first.body[1].predicate = self.hidden_0_name
              /\ first.body[1].terms = xs
              /\ last.type = "rule"
              /\ last.head.predicate = self.output_name
              /\ last.head.terms = xs
              /\ Len(last.body) = 1
              /\ last.body[1].predicate = IntermediateName(self)
              /\ last.body[1].terms = xs \o <<IntTerm(n)>>
              /\ ReachedIn(result, self.next_name,
                           first.head.terms[self.arity + 1].val, n)
                   = { last.body[1].terms[self.arity + 1].val }
              /\ \A j \in 0..(n - 1) :
                    n \notin ReachedIn(result, self.next_name, 0, j)

C8_Witness ==
    \E k \in RNNCalls :
        /\ calls[k].self.num_layers = MaxLayers
        /\ calls[k].self.arity = 1
        /\ ReachedIn(calls[k].result, calls[k].self.next_name, 0, MaxLayers)
             = {MaxLayers}

----------------------------------------------------------------------------
(* C10 *)

\* every atom of a result: heads of facts and rules, and rule bodies
AtomsOf(result) ==
    { result[k].head : k \in OfType(result, "fact") \cup OfType(result, "rule") }
    \cup UNION { Range(result[k].body) : k \in OfType(result, "rule") }

NamesDistinct(self) ==
    Cardinality({ IntermediateName(self), self.output_name, self.input_name,
                  self.hidden_0_name, self.next_name }) = 5

----------------------------------------------------------------------------
(* C4 *)

\* the names a caller gave a module
UserNames(self) ==
    { self.output_name, self.input_name, self.next_name,
      IF self.cls = "RNN" THEN self.hidden_0_name ELSE self.hidden_input_name }

\* the intermediate name an RNN's result defines: the head of its first rule
GeneratedName(call) == call.result[call.self.num_layers + 1].head.predicate

\* C4: the intermediate name generated by an expansion of an RNN never
\* equals a name a caller supplied to that or any other module, nor the
\* intermediate name generated for a different module.
C4_IntermediateNeverCollides ==
    \A k \in RNNCalls :
        /\ \A m \in DOMAIN modules :
              GeneratedName(calls[k]) \notin UserNames(modules[m])
        /\ \A j \in RNNCalls :
              calls[j].module # calls[k].module =>
                 GeneratedName(calls[j]) # GeneratedName(calls[k])

----------------------------------------------------------------------------
(* C5 *)

----------------------------------------------------------------------------
(* C6 *)

\* every predicate name of a result
PredicateNames(result) ==
    { atom.predicate : atom \in AtomsOf(result) }
    \cup { result[k].predicate : k \in OfType(result, "metadata") }

\* the names of a result the caller did not supply
GeneratedNames(call) == PredicateNames(call.result) \ UserNames(call.self)

\* C6: expansions of two RNNs with different output_name generate disjoint
\* sets of intermediate names.
C6_NamesIsolated ==
    \A i \in RNNCalls : \A j \in RNNCalls :
        calls[i].self.output_name # calls[j].self.output_name =>
            GeneratedNames(calls[i]) \cap GeneratedNames(calls[j]) = {}

C6_Witness ==
    \E i \in RNNCalls : \E j \in RNNCalls :
        /\ calls[i].self.output_name # calls[j].self.output_name
        /\ GeneratedNames(calls[i]) # {}
        /\ GeneratedNames(calls[j]) # {}

----------------------------------------------------------------------------
(* C7 *)

AddedCalls == { k \in DOMAIN calls : calls[k].added }

\* two RNNs of equal output_name and different hidden_size were both handed
\* to the resolver in this pass
ConflictingPairAdded ==
    \E i \in AddedCalls : \E j \in AddedCalls :
        /\ calls[i].self.cls = "RNN"
        /\ calls[j].self.cls = "RNN"
        /\ calls[i].self.output_name = calls[j].self.output_name
        /\ calls[i].self.hidden_size # calls[j].self.hidden_size

\* C7: once two RNNs of equal output_name and different hidden_size have
\* both been expanded into one template, the pass has failed with
\* NameConflict and holds no merged template.
C7_ConflictRejected ==
    ConflictingPairAdded => (error = "NameConflict" /\ template = <<>>)

C7_Witness == ConflictingPairAdded /\ error = "NameConflict"

====
